---- MODULE Spec2Model ----
(***************************************************************************)
(* Model of slack_task_organizer.py: one run of main(), i.e. the pipeline  *)
(* get_my_user_id -> get_mentions_last_24h -> analyze_with_claude ->       *)
(* send_dm_to_self, with the outcome of every external call (Slack Web API *)
(* and language-model endpoint) chosen nondeterministically.               *)
(*                                                                         *)
(* Text is modelled run-length encoded: a string is a sequence of runs     *)
(* [c |-> character, n |-> repetitions >= 1] in which adjacent runs carry  *)
(* different characters, so that two strings are equal iff their           *)
(* encodings are equal and a 3900-character text stays a short sequence.   *)
(* len, +, split('\n\n') and strip() are computed character-exactly on     *)
(* that encoding.                                                          *)
(***************************************************************************)
EXTENDS Integers, Sequences, FiniteSets, TLC

VARIABLES
    pc,               \* position of main(): the pipeline state
    user_id,          \* main's user_id (None after a failed auth_test)
    oldest,           \* get_mentions_last_24h's oldest
    result,           \* result["messages"]["matches"] of the search call
    mentions,         \* main's mentions
    organized_tasks,  \* main's organized_tasks
    messages,         \* send_dm_to_self's messages
    i,                \* loop index of the sending loop (0-based)
    calls,            \* every external call issued so far, in order
    out               \* console lines printed so far, in order

vars == <<pc, user_id, oldest, result, mentions, organized_tasks, messages, i, calls, out>>

-----------------------------------------------------------------------------
\* Bounds of the model

MaxMatches == 4       \* longest search result enumerated
MaxSections == 3      \* most sections of an enumerated report

-----------------------------------------------------------------------------
\* Run-length encoded strings

NL == "\n"
SP == " "

Run(c, n) == [c |-> c, n |-> n]

Str(c, n) == IF n = 0 THEN <<>> ELSE <<Run(c, n)>>

EmptyStr == <<>>

RECURSIVE StrLen(_)
StrLen(s) == IF s = <<>> THEN 0 ELSE s[1].n + StrLen(Tail(s))

\* s + t
Cat(s, t) ==
    IF s = <<>> THEN t
    ELSE IF t = <<>> THEN s
    ELSE IF s[Len(s)].c = t[1].c
         THEN SubSeq(s, 1, Len(s) - 1) \o <<Run(t[1].c, s[Len(s)].n + t[1].n)>> \o Tail(t)
         ELSE s \o t

IsSpace(c) == c \in {SP, NL}

RECURSIVE LStrip(_)
LStrip(s) == IF s # <<>> /\ IsSpace(s[1].c) THEN LStrip(Tail(s)) ELSE s

RECURSIVE RStrip(_)
RStrip(s) ==
    IF s # <<>> /\ IsSpace(s[Len(s)].c) THEN RStrip(SubSeq(s, 1, Len(s) - 1)) ELSE s

\* s.strip()
Strip(s) == RStrip(LStrip(s))

\* the first n characters of s, and s without them
RECURSIVE Take(_, _)
Take(s, n) ==
    IF n <= 0 \/ s = <<>> THEN <<>>
    ELSE IF s[1].n <= n THEN <<s[1]>> \o Take(Tail(s), n - s[1].n)
    ELSE <<Run(s[1].c, n)>>

RECURSIVE Drop(_, _)
Drop(s, n) ==
    IF n <= 0 \/ s = <<>> THEN s
    ELSE IF s[1].n <= n THEN Drop(Tail(s), n - s[1].n)
    ELSE <<Run(s[1].c, s[1].n - n)>> \o Tail(s)

StartsWith(s, p) == StrLen(p) <= StrLen(s) /\ Take(s, StrLen(p)) = p

\* s.split('\n\n'): the leftmost non-overlapping blank lines separate the
\* sections; a run of 2k or 2k+1 newlines holds k separators, and the odd
\* newline left over begins the next section.
RECURSIVE SplitFrom(_, _, _)
SplitFrom(s, cur, acc) ==
    IF s = <<>> THEN Append(acc, cur)
    ELSE LET r == s[1] IN
         IF r.c = NL /\ r.n >= 2
         THEN SplitFrom(Tail(s), Str(NL, r.n % 2),
                        Append(acc, cur) \o [k \in 1..((r.n \div 2) - 1) |-> EmptyStr])
         ELSE SplitFrom(Tail(s), Cat(cur, <<r>>), acc)

Split(s) == SplitFrom(s, EmptyStr, <<>>)

\* sep.join(parts)
RECURSIVE Join(_, _)
Join(parts, sep) ==
    IF parts = <<>> THEN EmptyStr
    ELSE IF Len(parts) = 1 THEN parts[1]
    ELSE Cat(Cat(parts[1], sep), Join(Tail(parts), sep))

\* str(k) for k >= 0
DigitChar == <<"0", "1", "2", "3", "4", "5", "6", "7", "8", "9">>

RECURSIVE DecStr(_)
DecStr(k) ==
    IF k < 10 THEN Str(DigitChar[k + 1], 1)
    ELSE Cat(DecStr(k \div 10), Str(DigitChar[(k % 10) + 1], 1))

-----------------------------------------------------------------------------
\* Constants of the program

None == "None"

max_length == 3900

\* "過去24時間にメンションはありませんでした。" (22 characters, none of them white space)
NoMentionsText == Str("N", 22)

\* "タスクの分析中にエラーが発生しました。" (19 characters, none of them white space)
AnalysisErrorText == Str("E", 19)

\* f"📋 タスク整理レポート ({timestamp})\n\n" with timestamp "%Y/%m/%d %H:%M":
\* "📋", " ", "タスク整理レポート", " ", "(YYYY/MM/DD", " ", "HH:MM)", "\n\n"
header ==
    <<Run("H", 1), Run(SP, 1), Run("H", 9), Run(SP, 1), Run("H", 11), Run(SP, 1),
      Run("H", 6), Run(NL, 2)>>

\* Mutant of ContinuationMarker: the 0-based index is printed (i for i+1)
ContinuationMarkerZeroBased(idx, total) ==
    Cat(Cat(Cat(Cat(<<Run("(", 1), Run("K", 2), Run(SP, 1)>>, DecStr(idx)),
                Str("/", 1)),
            DecStr(total)),
        <<Run(")", 1), Run(NL, 2)>>)

\* f"（続き {i+1}/{len(messages)}）\n\n" for the message at 0-based index idx
ContinuationMarker(idx, total) ==
    Cat(Cat(Cat(Cat(<<Run("(", 1), Run("K", 2), Run(SP, 1)>>, DecStr(idx + 1)),
                Str("/", 1)),
            DecStr(total)),
        <<Run(")", 1), Run(NL, 2)>>)

-----------------------------------------------------------------------------
\* Time stamps: "sec.usec" epoch seconds, compared as float() compares them

Ts(sec, usec) == [sec |-> sec, usec |-> usec]

TsGe(a, b) == a.sec > b.sec \/ (a.sec = b.sec /\ a.usec >= b.usec)

TsGt(a, b) == a.sec > b.sec \/ (a.sec = b.sec /\ a.usec > b.usec)

\* (datetime.now() - timedelta(hours=24)).timestamp()
OldestFor(now) == Ts(now.sec - 86400, now.usec)

-----------------------------------------------------------------------------
\* Search results: match records of the search endpoint

Absent == "<absent>"     \* the key is missing from the dict

Match(text, username, channel, ts, permalink) ==
    [text |-> text, username |-> username, channel |-> channel, ts |-> ts,
     permalink |-> permalink]

NoChannel == [present |-> FALSE, name |-> Absent]     \* no "channel" key
Channel(name) == [present |-> TRUE, name |-> name]    \* {"name": name}, or {} for Absent

\* dict.get(key, default)
GetOr(v, default) == IF v = Absent THEN default ELSE v

\* the dict appended for one match
MentionOf(match) ==
    [text |-> match.text,
     user |-> GetOr(match.username, "Unknown User"),
     channel |-> IF match.channel.present
                 THEN GetOr(match.channel.name, "Unknown Channel")
                 ELSE "Unknown Channel",
     timestamp |-> match.ts,
     permalink |-> GetOr(match.permalink, "")]

\* Mutant of InWindow: the boundary itself is left out (> for >=)
InWindowStrict(match, old) == TsGt(match.ts, old)

\* float(match["ts"]) >= oldest
InWindow(match, old) == TsGe(match.ts, old)

\* the for loop over result["messages"]["matches"]
RECURSIVE CollectLoop(_, _, _)
CollectLoop(matches, old, acc) ==
    IF matches = <<>> THEN acc
    ELSE CollectLoop(Tail(matches), old,
                     IF InWindow(Head(matches), old)
                     THEN Append(acc, MentionOf(Head(matches)))
                     ELSE acc)

\* Clock readings of datetime.now() enumerated for the collector
NowSet == {Ts(200000, 500000), Ts(200000, 500001)}

\* The matches the platform may return, newest first (sort="timestamp",
\* sort_dir="desc"): two from the last 20 hours, one that is exactly at the
\* 24 hour boundary of the first clock reading and one microsecond before the
\* boundary of the second, and one 25 hours old.
MatchPool ==
    <<Match("deploy?", "alice", Channel("general"), Ts(199000, 0), "https://x/1"),
      Match("review", Absent, Channel(Absent), Ts(128000, 100), Absent),
      Match("budget", "carol", NoChannel, Ts(113600, 500000), "https://x/3"),
      Match("old", "erin", Channel("ops"), Ts(110000, 0), "https://x/4")>>

\* the subsequence of MatchPool at the indices in S
RECURSIVE PickFrom(_, _)
PickFrom(k, S) ==
    IF k > Len(MatchPool) THEN <<>>
    ELSE (IF k \in S THEN <<MatchPool[k]>> ELSE <<>>) \o PickFrom(k + 1, S)

SearchResults ==
    {PickFrom(1, S) : S \in {T \in SUBSET (1..Len(MatchPool)) : Cardinality(T) <= MaxMatches}}

-----------------------------------------------------------------------------
\* Reports the language model may return: sections joined by blank lines

A2000 == Str("a", 2000)                            \* the section of FiveSections
B1940 == Str("b", 1940)
A4000 == Str("a", 4000)                            \* longer than max_length on its own
SpB == <<Run(SP, 1), Run("b", 10), Run(SP, 1)>>    \* white space on both sides
B1926 == Str("b", 1926)       \* header + B1940 + blank line + B1926 is 3900 long
B1924 == Str("b", 1924)       \* the same with the blank line after it is 3900 long
PaddedA4000 == <<Run(SP, 1), Run("a", 4000)>>      \* longer than max_length, padded

SectionSet == {B1940, A4000, SpB, EmptyStr}

NL2 == Str(NL, 2)

RECURSIVE SeqsUpTo(_, _)
SeqsUpTo(S, n) ==
    IF n = 0 THEN {<<>>}
    ELSE LET shorter == SeqsUpTo(S, n - 1)
         IN shorter \cup {Append(q, x) : q \in {r \in shorter : Len(r) = n - 1}, x \in S}

\* 5 sections of 2,000 characters each
FiveSections == Join(<<A2000, A2000, A2000, A2000, A2000>>, NL2)

\* a second section that fits the first buffer only without the blank line
\* after it, and one that fits it with that blank line
NearFit == Join(<<B1940, B1926, B1940>>, NL2)
ExactFit == Join(<<B1940, B1924, B1940>>, NL2)

\* a section longer than max_length between two short ones
PaddedOversized == Join(<<SpB, PaddedA4000, SpB>>, NL2)

Reports ==
    {Join(q, NL2) : q \in (SeqsUpTo(SectionSet, MaxSections) \ {<<>>})}
        \cup {FiveSections, NearFit, ExactFit, PaddedOversized}

-----------------------------------------------------------------------------
\* send_dm_to_self: building the messages

\* Mutant of PackLoop: the section that does not fit is not carried into
\* the next buffer (current_message restarts empty)
RECURSIVE PackLoopDropsSection(_, _, _)
PackLoopDropsSection(sections, current_message, msgs) ==
    IF sections = <<>> THEN [current_message |-> current_message, messages |-> msgs]
    ELSE LET section == Head(sections) IN
         IF StrLen(current_message) + StrLen(section) + 2 <= max_length
         THEN PackLoopDropsSection(Tail(sections), Cat(Cat(current_message, section), NL2),
                                   msgs)
         ELSE PackLoopDropsSection(Tail(sections), EmptyStr,
                                   Append(msgs, Strip(current_message)))

\* Mutant of PackLoop: the length of the header is added to every buffer
RECURSIVE PackLoopCountsHeaderAgain(_, _, _)
PackLoopCountsHeaderAgain(sections, current_message, msgs) ==
    IF sections = <<>> THEN [current_message |-> current_message, messages |-> msgs]
    ELSE LET section == Head(sections) IN
         IF StrLen(header) + StrLen(current_message) + StrLen(section) + 2 <= max_length
         THEN PackLoopCountsHeaderAgain(Tail(sections),
                                        Cat(Cat(current_message, section), NL2), msgs)
         ELSE PackLoopCountsHeaderAgain(Tail(sections), Cat(section, NL2),
                                        Append(msgs, Strip(current_message)))

\* Mutant of PackLoop: the test leaves out the length of current_message
RECURSIVE PackLoopIgnoresBuffer(_, _, _)
PackLoopIgnoresBuffer(sections, current_message, msgs) ==
    IF sections = <<>> THEN [current_message |-> current_message, messages |-> msgs]
    ELSE LET section == Head(sections) IN
         IF StrLen(section) + 2 <= max_length
         THEN PackLoopIgnoresBuffer(Tail(sections),
                                    Cat(Cat(current_message, section), NL2), msgs)
         ELSE PackLoopIgnoresBuffer(Tail(sections), Cat(section, NL2),
                                    Append(msgs, Strip(current_message)))

\* the for loop over sections; yields current_message and messages after it
RECURSIVE PackLoop(_, _, _)
PackLoop(sections, current_message, msgs) ==
    IF sections = <<>> THEN [current_message |-> current_message, messages |-> msgs]
    ELSE LET section == Head(sections) IN
         IF StrLen(current_message) + StrLen(section) + 2 <= max_length
         THEN PackLoop(Tail(sections), Cat(Cat(current_message, section), NL2), msgs)
         ELSE PackLoop(Tail(sections), Cat(section, NL2),
                       Append(msgs, Strip(current_message)))

\* Mutant of SplitMessages: the buffer left after the loop is not appended
SplitMessagesDropsLast(report) == PackLoop(Split(report), header, <<>>).messages

\* the else branch: split on blank lines and pack the sections
SplitMessages(report) ==
    LET packed == PackLoop(Split(report), header, <<>>) IN
    IF Strip(packed.current_message) # EmptyStr
    THEN Append(packed.messages, Strip(packed.current_message))
    ELSE packed.messages

\* Mutant of BuildMessages: the single message is stripped like the others
BuildMessagesStripsSingle(report) ==
    IF StrLen(report) <= max_length
    THEN <<Strip(Cat(header, report))>>
    ELSE SplitMessages(report)

\* messages as built before the sending loop
BuildMessages(report) ==
    IF StrLen(report) <= max_length
    THEN <<Cat(header, report)>>
    ELSE SplitMessages(report)

\* the text handed to chat_postMessage for messages[idx] (0-based idx)
OutgoingText(msgs, idx) ==
    IF idx > 0
    THEN Cat(ContinuationMarker(idx, Len(msgs)), msgs[idx + 1])
    ELSE msgs[idx + 1]

-----------------------------------------------------------------------------
\* External calls and console output

\* A call either returns or fails with the exception its caller handles:
\* SlackApiError for the Slack Web API calls, any Exception for the
\* language-model call. ok records which; text is the text of a posted message.
Call(api, ok, text) == [api |-> api, ok |-> ok, text |-> text]

Line(tag, n) == [tag |-> tag, n |-> n]

CallsOf(api) == SelectSeq(calls, LAMBDA c : c.api = api)

Init ==
    /\ pc = "Start"
    /\ user_id = None
    /\ oldest = Ts(0, 0)
    /\ result = <<>>
    /\ mentions = <<>>
    /\ organized_tasks = EmptyStr
    /\ messages = <<>>
    /\ i = 0
    /\ calls = <<>>
    /\ out = <<>>

\* Mutant of GetMyUserId: main goes on after a failed auth_test (no return)
GetMyUserIdNoReturn ==
    /\ pc = "Start"
    /\ \E ok \in BOOLEAN :
          /\ calls' = Append(calls, Call("auth_test", ok, EmptyStr))
          /\ user_id' = IF ok THEN "U1" ELSE None
          /\ out' = out \o <<Line("fetching_user", 0), Line("user_id", 0)>>
          /\ pc' = "IdentityResolved"
    /\ UNCHANGED <<oldest, result, mentions, organized_tasks, messages, i>>

\* main up to the user_id check, with get_my_user_id
GetMyUserId ==
    /\ pc = "Start"
    /\ \E ok \in BOOLEAN :
          /\ calls' = Append(calls, Call("auth_test", ok, EmptyStr))
          /\ IF ok
             THEN /\ user_id' = "U1"
                  /\ out' = out \o <<Line("fetching_user", 0), Line("user_id", 0)>>
                  /\ pc' = "IdentityResolved"
             ELSE /\ user_id' = None
                  /\ out' = out \o <<Line("fetching_user", 0), Line("user_id_error", 0),
                                     Line("user_id_failed", 0)>>
                  /\ pc' = "AbortedOnAuthFailure"
    /\ UNCHANGED <<oldest, result, mentions, organized_tasks, messages, i>>

\* Mutant of GetMentions: a failed search ends the run like a failed auth_test
GetMentionsAbortsOnError ==
    /\ pc = "IdentityResolved"
    /\ \E now \in NowSet :
          /\ oldest' = OldestFor(now)
          /\ \/ \E matches \in SearchResults :
                   /\ calls' = Append(calls, Call("search_messages", TRUE, EmptyStr))
                   /\ result' = matches
                   /\ mentions' = CollectLoop(matches, OldestFor(now), <<>>)
                   /\ out' = out \o <<Line("searching", 0), Line("detected", Len(mentions'))>>
                   /\ pc' = "MentionsCollected"
             \/ /\ calls' = Append(calls, Call("search_messages", FALSE, EmptyStr))
                /\ result' = <<>>
                /\ mentions' = <<>>
                /\ out' = out \o <<Line("searching", 0), Line("slack_api_error", 0)>>
                /\ pc' = "AbortedOnAuthFailure"
    /\ UNCHANGED <<user_id, organized_tasks, messages, i>>

\* Mutant of GetMentions: a failed search returns the error as a mention
GetMentionsErrorAsMention ==
    /\ pc = "IdentityResolved"
    /\ \E now \in NowSet :
          /\ oldest' = OldestFor(now)
          /\ \/ \E matches \in SearchResults :
                   /\ calls' = Append(calls, Call("search_messages", TRUE, EmptyStr))
                   /\ result' = matches
                   /\ mentions' = CollectLoop(matches, OldestFor(now), <<>>)
                   /\ out' = out \o <<Line("searching", 0), Line("detected", Len(mentions'))>>
             \/ /\ calls' = Append(calls, Call("search_messages", FALSE, EmptyStr))
                /\ result' = <<>>
                /\ mentions' = <<MentionOf(Match("error", Absent, NoChannel, now, Absent))>>
                /\ out' = out \o <<Line("searching", 0), Line("slack_api_error", 0),
                                   Line("detected", 1)>>
    /\ pc' = "MentionsCollected"
    /\ UNCHANGED <<user_id, organized_tasks, messages, i>>

\* get_mentions_last_24h and main's report of the count
GetMentions ==
    /\ pc = "IdentityResolved"
    /\ \E now \in NowSet :
          /\ oldest' = OldestFor(now)
          /\ \/ \E matches \in SearchResults :
                   /\ calls' = Append(calls, Call("search_messages", TRUE, EmptyStr))
                   /\ result' = matches
                   /\ mentions' = CollectLoop(matches, OldestFor(now), <<>>)
                   /\ out' = out \o <<Line("searching", 0), Line("detected", Len(mentions'))>>
             \/ /\ calls' = Append(calls, Call("search_messages", FALSE, EmptyStr))
                /\ result' = <<>>
                /\ mentions' = <<>>
                /\ out' = out \o <<Line("searching", 0), Line("slack_api_error", 0),
                                   Line("detected", 0)>>
    /\ pc' = "MentionsCollected"
    /\ UNCHANGED <<user_id, organized_tasks, messages, i>>

\* Mutant of AnalyzeWithClaude: no early return for an empty list of mentions
AnalyzeWithClaudeAlwaysCalls ==
    /\ pc = "MentionsCollected"
    /\ \/ \E text \in Reports :
             /\ calls' = Append(calls, Call("messages_create", TRUE, EmptyStr))
             /\ organized_tasks' = text
             /\ out' = Append(out, Line("analyzing", 0))
       \/ /\ calls' = Append(calls, Call("messages_create", FALSE, EmptyStr))
          /\ organized_tasks' = AnalysisErrorText
          /\ out' = out \o <<Line("analyzing", 0), Line("claude_error", 0)>>
    /\ pc' = "ReportReady"
    /\ UNCHANGED <<user_id, oldest, result, mentions, messages, i>>

\* Mutant of AnalyzeWithClaude: the except branch returns the other fixed text
AnalyzeWithClaudeWrongFallback ==
    /\ pc = "MentionsCollected"
    /\ IF mentions = <<>>
       THEN /\ organized_tasks' = NoMentionsText
            /\ calls' = calls
            /\ out' = Append(out, Line("analyzing", 0))
       ELSE \/ \E text \in Reports :
                  /\ calls' = Append(calls, Call("messages_create", TRUE, EmptyStr))
                  /\ organized_tasks' = text
                  /\ out' = Append(out, Line("analyzing", 0))
            \/ /\ calls' = Append(calls, Call("messages_create", FALSE, EmptyStr))
               /\ organized_tasks' = NoMentionsText
               /\ out' = out \o <<Line("analyzing", 0), Line("claude_error", 0)>>
    /\ pc' = "ReportReady"
    /\ UNCHANGED <<user_id, oldest, result, mentions, messages, i>>

\* analyze_with_claude
AnalyzeWithClaude ==
    /\ pc = "MentionsCollected"
    /\ IF mentions = <<>>
       THEN /\ organized_tasks' = NoMentionsText
            /\ calls' = calls
            /\ out' = Append(out, Line("analyzing", 0))
       ELSE \/ \E text \in Reports :
                  /\ calls' = Append(calls, Call("messages_create", TRUE, EmptyStr))
                  /\ organized_tasks' = text
                  /\ out' = Append(out, Line("analyzing", 0))
            \/ /\ calls' = Append(calls, Call("messages_create", FALSE, EmptyStr))
               /\ organized_tasks' = AnalysisErrorText
               /\ out' = out \o <<Line("analyzing", 0), Line("claude_error", 0)>>
    /\ pc' = "ReportReady"
    /\ UNCHANGED <<user_id, oldest, result, mentions, messages, i>>

\* the end of send_dm_to_self after the sending loop, and the end of main
Succeeded(n) == <<Line("dm_sent", n), Line("completed", 0)>>

\* the except branch of send_dm_to_self, and the end of main
Failed == <<Line("dm_error", 0), Line("completed", 0)>>

\* send_dm_to_self up to the sending loop: conversations_open and the messages
OpenDM ==
    /\ pc = "ReportReady"
    /\ \E ok \in BOOLEAN :
          /\ calls' = Append(calls, Call("conversations_open", ok, EmptyStr))
          /\ IF ok
             THEN /\ messages' = BuildMessages(organized_tasks)
                  /\ IF messages' = <<>>
                     THEN /\ out' = out \o <<Line("sending", 0)>> \o Succeeded(0)
                          /\ pc' = "Delivered"
                     ELSE /\ out' = Append(out, Line("sending", 0))
                          /\ pc' = "Sending"
             ELSE /\ messages' = messages
                  /\ out' = out \o <<Line("sending", 0)>> \o Failed
                  /\ pc' = "Delivered"
    /\ i' = 0
    /\ UNCHANGED <<user_id, oldest, result, mentions, organized_tasks>>

\* Mutant of SendNext: a failed post is logged and the loop goes on
SendNextKeepsGoing ==
    /\ pc = "Sending"
    /\ \E ok \in BOOLEAN :
          /\ calls' = Append(calls, Call("chat_postMessage", ok, OutgoingText(messages, i)))
          /\ i' = i + 1
          /\ IF i + 1 = Len(messages)
             THEN /\ out' = out \o (IF ok THEN <<>> ELSE <<Line("dm_error", 0)>>)
                                \o Succeeded(Len(messages))
                  /\ pc' = "Delivered"
             ELSE /\ out' = out \o (IF ok THEN <<>> ELSE <<Line("dm_error", 0)>>)
                  /\ pc' = "Sending"
    /\ UNCHANGED <<user_id, oldest, result, mentions, organized_tasks, messages>>

\* Mutant of SendNext: a failed post is tried a second time
SendNextRetriesOnce ==
    /\ pc = "Sending"
    /\ \E ok \in BOOLEAN :
          /\ calls' = Append(calls, Call("chat_postMessage", ok, OutgoingText(messages, i)))
          /\ IF ok
             THEN /\ i' = i + 1
                  /\ IF i + 1 = Len(messages)
                     THEN /\ out' = out \o Succeeded(Len(messages))
                          /\ pc' = "Delivered"
                     ELSE /\ out' = out
                          /\ pc' = "Sending"
             ELSE /\ i' = i
                  /\ IF calls[Len(calls)].api = "chat_postMessage" /\ ~calls[Len(calls)].ok
                     THEN /\ out' = out \o Failed
                          /\ pc' = "Delivered"
                     ELSE /\ out' = out
                          /\ pc' = "Sending"
    /\ UNCHANGED <<user_id, oldest, result, mentions, organized_tasks, messages>>

\* one iteration of the sending loop: chat_postMessage of messages[i]
SendNext ==
    /\ pc = "Sending"
    /\ \E ok \in BOOLEAN :
          /\ calls' = Append(calls, Call("chat_postMessage", ok, OutgoingText(messages, i)))
          /\ IF ok
             THEN /\ i' = i + 1
                  /\ IF i + 1 = Len(messages)
                     THEN /\ out' = out \o Succeeded(Len(messages))
                          /\ pc' = "Delivered"
                     ELSE /\ out' = out
                          /\ pc' = "Sending"
             ELSE /\ i' = i
                  /\ out' = out \o Failed
                  /\ pc' = "Delivered"
    /\ UNCHANGED <<user_id, oldest, result, mentions, organized_tasks, messages>>

Next ==
    \/ GetMyUserId
    \/ GetMentions
    \/ AnalyzeWithClaude
    \/ OpenDM
    \/ SendNext

Spec == Init /\ [][Next]_vars

\* the calls block and return: a run that can take a step takes it
FairSpec == Spec /\ WF_vars(Next)

-----------------------------------------------------------------------------
\* Vocabulary of the properties

Posts == CallsOf("chat_postMessage")

AuthFailed == \E k \in 1..Len(calls) : calls[k].api = "auth_test" /\ ~calls[k].ok

SearchFailed == \E k \in 1..Len(calls) : calls[k].api = "search_messages" /\ ~calls[k].ok

ModelFailed == \E k \in 1..Len(calls) : calls[k].api = "messages_create" /\ ~calls[k].ok

Opened == \E k \in 1..Len(calls) : calls[k].api = "conversations_open" /\ calls[k].ok

Terminal == {"Delivered", "AbortedOnAuthFailure"}

\* the header as it stands at the start of a message: the label and the time stamp
HeaderLine == Strip(header)

\* the sections a sent text carries once the injected header (position 1)
\* or continuation marker (later positions) is taken off
SectionsOfChunk(text, pos, total) ==
    IF pos = 1
    THEN IF StartsWith(text, header) THEN Split(Drop(text, StrLen(header)))
         ELSE IF text = HeaderLine THEN <<>>
         ELSE Split(Drop(text, StrLen(HeaderLine)))
    ELSE Split(Drop(text, 8 + StrLen(DecStr(pos)) + StrLen(DecStr(total))))

RECURSIVE SectionsOfChunks(_, _)
SectionsOfChunks(msgs, pos) ==
    IF pos > Len(msgs) THEN <<>>
    ELSE SectionsOfChunk(OutgoingText(msgs, pos - 1), pos, Len(msgs))
         \o SectionsOfChunks(msgs, pos + 1)

\* a section that strip() leaves alone: not empty, no white space at either end
Clean(section) == section # EmptyStr /\ Strip(section) = section

\* the sections that are not blank, each without the white space around it
RECURSIVE Stripped(_)
Stripped(sections) ==
    IF sections = <<>> THEN <<>>
    ELSE (IF Strip(Head(sections)) = EmptyStr THEN <<>> ELSE <<Strip(Head(sections))>>)
         \o Stripped(Tail(sections))

-----------------------------------------------------------------------------
\* C1: every text handed to chat_postMessage, header or continuation marker
\* included, is at most max_length = 3900 characters long.
C1_EverySentTextWithinMaxLength ==
    \A k \in 1..Len(calls) :
        calls[k].api = "chat_postMessage" => StrLen(calls[k].text) <= max_length

\* C2 as claimed: taking the header and the continuation markers off the
\* messages gives back the sections of the report, in order, none dropped,
\* duplicated or altered, white space included.
C2_SectionsReproducedExactly ==
    Opened => SectionsOfChunks(messages, 1) = Split(organized_tasks)

\* C2 as amended: the sections come back in order up to the white space
\* that strip() removes at both ends of a buffer (none dropped, duplicated or
\* reordered among the non-blank ones), and exactly when every section of the
\* report is non-empty and free of white space at its ends.
C2_SectionsReproducedUpToStrip ==
    Opened =>
        /\ Stripped(SectionsOfChunks(messages, 1)) = Stripped(Split(organized_tasks))
        /\ (\A k \in 1..Len(Split(organized_tasks)) : Clean(Split(organized_tasks)[k]))
              => SectionsOfChunks(messages, 1) = Split(organized_tasks)

C2_Witness ==
    /\ Opened
    /\ Len(messages) >= 3
    /\ Len(Split(organized_tasks)) >= 3
    /\ \A k \in 1..Len(Split(organized_tasks)) : Clean(Split(organized_tasks)[k])
    /\ pc = "Delivered"
    /\ Len(Posts) = Len(messages)

\* C3: after a failed auth_test the run makes no search, language-model,
\* channel-open or message-send call: the failed call is the only call.
C3_AuthFailureStopsAllCalls ==
    AuthFailed => Len(calls) = 1 /\ pc = "AbortedOnAuthFailure"

C3_Witness == AuthFailed /\ pc = "AbortedOnAuthFailure"

\* C4: every run ends in Delivered or AbortedOnAuthFailure, moving only along
\* Start -> IdentityResolved -> MentionsCollected -> ReportReady -> Delivered;
\* it is aborted exactly when auth_test failed, and a failed search or
\* language-model call never stops it short of the channel-open call.
PipelineEdges ==
    {<<"Start", "IdentityResolved">>, <<"Start", "AbortedOnAuthFailure">>,
     <<"IdentityResolved", "MentionsCollected">>, <<"MentionsCollected", "ReportReady">>,
     <<"ReportReady", "Sending">>, <<"ReportReady", "Delivered">>,
     <<"Sending", "Sending">>, <<"Sending", "Delivered">>}

PipelineStep == <<pc, pc'>> \in PipelineEdges

C4_RunsEndDeliveredOrAborted ==
    /\ <>(pc \in Terminal)
    /\ [][PipelineStep]_vars
    /\ [](pc = "AbortedOnAuthFailure" <=> AuthFailed)
    /\ []((pc \in Terminal /\ ~AuthFailed) =>
             pc = "Delivered" /\ CallsOf("conversations_open") # <<>>)

C4_Witness ==
    pc = "Delivered" /\ SearchFailed /\ CallsOf("conversations_open") # <<>>

\* C5: after a successful search, mentions holds exactly the matches with
\* ts >= oldest (the boundary included), in the order of the result (newest
\* first), with text, timestamp and permalink as returned and the defaults
\* in place of missing fields.
C5_MentionsAreTheMatchesInWindow ==
    (pc \notin {"Start", "IdentityResolved", "AbortedOnAuthFailure"} /\ ~SearchFailed) =>
        LET inWindow == SelectSeq(result, LAMBDA m : ~TsGt(oldest, m.ts)) IN
        /\ Len(mentions) = Len(inWindow)
        /\ \A k \in 1..Len(mentions) :
              /\ mentions[k].text = inWindow[k].text
              /\ mentions[k].timestamp = inWindow[k].ts
              /\ mentions[k].permalink =
                    (IF inWindow[k].permalink = Absent THEN "" ELSE inWindow[k].permalink)
              /\ mentions[k].user =
                    (IF inWindow[k].username = Absent THEN "Unknown User"
                     ELSE inWindow[k].username)
              /\ mentions[k].channel =
                    (IF inWindow[k].channel.present /\ inWindow[k].channel.name # Absent
                     THEN inWindow[k].channel.name ELSE "Unknown Channel")
        /\ \A k \in 1..Len(mentions) : \A l \in k..Len(mentions) :
              TsGe(mentions[k].timestamp, mentions[l].timestamp)
        /\ \A k \in 1..Len(result) :
              TsGt(oldest, result[k].ts) =>
                 \A l \in 1..Len(mentions) : mentions[l].timestamp # result[k].ts

C5_Witness ==
    /\ pc = "MentionsCollected"
    /\ Len(result) = 4
    /\ Len(mentions) = 3
    /\ mentions[3].timestamp = oldest
    /\ mentions[3].channel = "Unknown Channel"

\* C6: the texts posted are, in order, the first texts of the messages built;
\* after a failed channel-open nothing is posted, after a failed post nothing
\* more is posted, and every post before a failed one succeeded.
C6_PostsArePrefixAndStopOnFailure ==
    /\ Len(Posts) <= Len(messages)
    /\ \A k \in 1..Len(Posts) : Posts[k].text = OutgoingText(messages, k - 1)
    /\ \A k \in 1..Len(Posts) : ~Posts[k].ok => k = Len(Posts)
    /\ \A k \in 1..Len(calls) :
          (calls[k].api \in {"conversations_open", "chat_postMessage"} /\ ~calls[k].ok)
             => k = Len(calls)
    /\ ~Opened => Posts = <<>>

C6_Witness ==
    /\ pc = "Delivered"
    /\ Len(messages) >= 3
    /\ Len(Posts) = 2
    /\ Posts[1].ok
    /\ ~Posts[2].ok

\* C7: in a delivery of N > 1 messages the text at 0-based index i >= 1
\* begins with the marker naming position i+1 of N, and the text at index 0
\* begins with the header and with no marker.
C7_ContinuationMarkers ==
    Len(messages) > 1 =>
        \A k \in 1..Len(Posts) :
            IF k = 1
            THEN /\ StartsWith(Posts[k].text, HeaderLine)
                 /\ ~StartsWith(Posts[k].text, <<Run("(", 1), Run("K", 2)>>)
            ELSE StartsWith(Posts[k].text,
                            <<Run("(", 1), Run("K", 2), Run(SP, 1), Run(DigitChar[k + 1], 1),
                              Run("/", 1), Run(DigitChar[Len(messages) + 1], 1),
                              Run(")", 1), Run(NL, 2)>>)

C7_Witness ==
    /\ Len(messages) >= 3
    /\ Len(Posts) = Len(messages)
    /\ Posts[3].ok

\* C8: with no mentions analyze_with_claude returns the fixed "no mentions"
\* text and calls the language model zero times; with mentions it calls it
\* exactly once.
C8_ModelCalledOnlyForMentions ==
    /\ pc \in {"Start", "IdentityResolved", "MentionsCollected", "AbortedOnAuthFailure"}
          => CallsOf("messages_create") = <<>>
    /\ pc \in {"ReportReady", "Sending", "Delivered"} =>
          IF mentions = <<>>
          THEN organized_tasks = NoMentionsText /\ CallsOf("messages_create") = <<>>
          ELSE Len(CallsOf("messages_create")) = 1

C8_Witness ==
    pc = "ReportReady" /\ mentions = <<>> /\ result # <<>> /\ ~SearchFailed

\* C9: after a failed language-model call the report is the fixed "analysis
\* failed" text, the run goes on to the channel-open call, and what is posted
\* is one message, the header followed by that text.
C9_ModelFailureIsDelivered ==
    ModelFailed =>
        /\ organized_tasks = AnalysisErrorText
        /\ pc \in {"ReportReady", "Sending", "Delivered"}
        /\ pc = "Delivered" => CallsOf("conversations_open") # <<>>
        /\ Opened => messages = <<Cat(header, AnalysisErrorText)>>
        /\ Len(Posts) <= 1
        /\ \A k \in 1..Len(Posts) : Posts[k].text = Cat(header, AnalysisErrorText)
        /\ (Opened /\ pc = "Delivered") => Len(Posts) = 1

C9_Witness ==
    ModelFailed /\ pc = "Delivered" /\ Len(Posts) = 1 /\ Posts[1].ok

\* C10: when header + report is at most max_length = 3900 characters long,
\* exactly one message is built and it is header + report, unchanged.
C10_ShortReportIsOneMessage ==
    (Opened /\ StrLen(header) + StrLen(organized_tasks) <= max_length) =>
        /\ messages = <<Cat(header, organized_tasks)>>
        /\ \A k \in 1..Len(Posts) : k = 1 /\ Posts[k].text = Cat(header, organized_tasks)

C10_Witness ==
    /\ Opened
    /\ StrLen(header) + StrLen(organized_tasks) <= max_length
    /\ Len(Split(organized_tasks)) >= 2
    /\ Strip(organized_tasks) # organized_tasks
    /\ Len(Posts) = 1
    /\ Posts[1].ok

\* C11: when header + report is longer than max_length = 3900 characters
\* (also when the report alone is not), header + report is not sent as one
\* message: the report is split into sections.
C11_LongReportIsNotOneMessage ==
    (Opened /\ StrLen(header) + StrLen(organized_tasks) > max_length) =>
        messages # <<Cat(header, organized_tasks)>>

\* C12 as claimed: 5 sections of 2,000 characters make exactly 3 buffers.
C12_FiveSectionsMakeThreeBuffers ==
    (Opened /\ organized_tasks = FiveSections) => Len(messages) = 3

\* C12 as amended: 5 sections of 2,000 characters make exactly 5 buffers,
\* one section each (two of them with their blank line are 4,002 characters),
\* posted in order with the continuation marker on buffers 2 to 5 only.
C12_FiveSectionsMakeFiveBuffers ==
    (Opened /\ organized_tasks = FiveSections) =>
        /\ messages = <<Cat(header, A2000), A2000, A2000, A2000, A2000>>
        /\ \A k \in 1..Len(Posts) :
              /\ Posts[k].text =
                    (IF k = 1 THEN messages[1]
                     ELSE Cat(<<Run("(", 1), Run("K", 2), Run(SP, 1),
                                Run(DigitChar[k + 1], 1), Run("/", 1), Run("5", 1),
                                Run(")", 1), Run(NL, 2)>>,
                              messages[k]))
              /\ ~Posts[k].ok => pc = "Delivered" /\ k = Len(Posts)
        /\ (pc = "Delivered" /\ \A k \in 1..Len(Posts) : Posts[k].ok) => Len(Posts) = 5

C12_Witness ==
    /\ organized_tasks = FiveSections
    /\ pc = "Delivered"
    /\ Len(Posts) = 5
    /\ Posts[5].ok

\* C13: auth_test, search_messages, messages_create and conversations_open
\* are each called at most once, every buffer is posted at most once, the
\* calls come in that order, and nothing is called again after it failed.
ApiRank(api) ==
    CASE api = "auth_test" -> 1
      [] api = "search_messages" -> 2
      [] api = "messages_create" -> 3
      [] api = "conversations_open" -> 4
      [] api = "chat_postMessage" -> 5

C13_EachCallOnceInOrder ==
    /\ \A k \in 1..Len(calls) : \A l \in (k + 1)..Len(calls) :
          /\ ApiRank(calls[k].api) <= ApiRank(calls[l].api)
          /\ ApiRank(calls[k].api) = ApiRank(calls[l].api)
                => calls[k].api = "chat_postMessage" /\ calls[k].ok
    /\ Len(Posts) <= Len(messages)
    /\ \A k \in 1..Len(Posts) : Posts[k].text = OutgoingText(messages, k - 1)
    /\ Len(SelectSeq(Posts, LAMBDA c : c.ok)) = i

C13_Witness ==
    /\ pc = "Delivered"
    /\ Len(CallsOf("messages_create")) = 1
    /\ Len(messages) >= 2
    /\ Len(Posts) = Len(messages)
    /\ Posts[Len(Posts)].ok
    /\ ApiRank(calls[1].api) = 1
    /\ ApiRank(calls[4].api) = 4

\* C14 as claimed: in the split path, every buffer joined by a blank line
\* with the first section of the buffer after it is longer than max_length.
C14_NextSectionWouldExceedMaxLength ==
    (Opened /\ StrLen(organized_tasks) > max_length) =>
        \A k \in 1..(Len(messages) - 1) :
            StrLen(messages[k]) + 2 + StrLen(Split(messages[k + 1])[1]) > max_length

\* C14 as amended: the test counts the blank line that follows the section
\* as well. For a report whose sections are non-empty and free of white space
\* at their ends (so that strip() only removes the last blank line of a
\* buffer), every buffer joined by a blank line with the first section of the
\* buffer after it and the blank line after that section is longer than
\* max_length.
C14_NextSectionAndBlankLineWouldExceed ==
    (/\ Opened
     /\ StrLen(organized_tasks) > max_length
     /\ \A k \in 1..Len(Split(organized_tasks)) : Clean(Split(organized_tasks)[k])) =>
        \A k \in 1..(Len(messages) - 1) :
            StrLen(messages[k]) + 2 + StrLen(Split(messages[k + 1])[1]) + 2 > max_length

C14_Witness ==
    /\ Opened
    /\ organized_tasks = NearFit
    /\ Len(messages) = 2
    /\ StrLen(messages[1]) + 2 + StrLen(Split(messages[2])[1]) = max_length
    /\ Len(Posts) = 2

\* C15: in the split path a section longer than max_length is a buffer of
\* its own (stripped at its ends like every buffer), never split and never
\* joined with the header or another section, and every buffer longer than
\* max_length is one such section.
Oversized(section) == StrLen(section) > max_length

Printed(tag) == \E k \in 1..Len(out) : out[k].tag = tag

DeliveryFailed ==
    \E k \in 1..Len(calls) :
        calls[k].api \in {"conversations_open", "chat_postMessage"} /\ ~calls[k].ok

AllDelivered ==
    Opened /\ Len(Posts) = Len(messages) /\ \A k \in 1..Len(Posts) : Posts[k].ok

C16_SuccessReportOnlyOnFullDelivery ==
    /\ Printed("dm_sent") <=> AllDelivered
    /\ \A k \in 1..Len(out) : out[k].tag = "dm_sent" => out[k].n = Len(messages)
    /\ DeliveryFailed => ~Printed("dm_sent") /\ ~Printed("completed")

\* C17: every text handed to chat_postMessage is non-empty and holds the
\* header or the text of at least one non-empty section of the report.
C17_EverySentTextCarriesContent ==
    \A k \in 1..Len(Posts) :
        /\ Posts[k].text # EmptyStr
        /\ \/ k = 1 /\ StartsWith(Posts[k].text, HeaderLine)
           \/ k > 1 /\ Strip(Drop(Posts[k].text,
                                  8 + StrLen(DecStr(k)) + StrLen(DecStr(Len(messages)))))
                          # EmptyStr

\* C18: a run whose search call fails and a run whose search returns no
\* match in the window go on alike: mentions is empty, the language model is
\* not called, and the one message posted is the header followed by the fixed
\* "no mentions" text.
NothingInWindow ==
    /\ pc \notin {"Start", "IdentityResolved", "AbortedOnAuthFailure"}
    /\ \/ SearchFailed
       \/ \A k \in 1..Len(result) : TsGt(oldest, result[k].ts)

C18_FailedSearchIsLikeNoMentions ==
    /\ SearchFailed => pc \notin {"Start", "IdentityResolved", "AbortedOnAuthFailure"}
    /\ NothingInWindow =>
          /\ mentions = <<>>
          /\ CallsOf("messages_create") = <<>>
          /\ pc # "MentionsCollected" => organized_tasks = NoMentionsText
          /\ pc = "Delivered" => CallsOf("conversations_open") # <<>>
          /\ Opened => messages = <<Cat(header, NoMentionsText)>>
          /\ Len(Posts) <= 1
          /\ \A k \in 1..Len(Posts) : Posts[k].text = Cat(header, NoMentionsText)
          /\ (Opened /\ pc = "Delivered") => Len(Posts) = 1

C18_Witness ==
    SearchFailed /\ pc = "Delivered" /\ Len(Posts) = 1 /\ Posts[1].ok

====
